---- MODULE Spec2Model ----
(***************************************************************************)
(* lit-report: the rate-limited, retrying, paginating Semantic Scholar     *)
(* client (scripts/semantic_scholar_client.py), the keyword search over it *)
(* (scripts/recent_papers_search.py), the exclusion filter                 *)
(* (scripts/paper_utils.py) and the journal metric store with its lookups, *)
(* score and sort (scripts/journal_impact.py).                             *)
(*                                                                         *)
(* Time is counted in tenths of a second, so that REQUEST_DELAY = 1.1 s is *)
(* the integer 11 and the default backoff delay of 5 s is 50.  The clock   *)
(* enters the program only through the difference of line 25, time.time()  *)
(* - self.last_request_time, and that difference is what the state keeps.  *)
(* A paper is identified by its rank in the server's result list: the page *)
(* served for offset o with n records holds the papers o+1 .. o+n.  An     *)
(* impact factor (three decimals) is counted in thousandths.               *)
(***************************************************************************)
EXTENDS Integers, Sequences, FiniteSets, TLC

VARIABLES
    elapsed_time,         \* time.time() - self.last_request_time
    pc,                   \* control position of the single thread
    max_results,          \* get_all_papers_by_date_range: parameter
    all_papers,           \* get_all_papers_by_date_range: local
    offset,               \* get_all_papers_by_date_range: local
    consecutive_failures, \* get_all_papers_by_date_range: local
    current_retries,      \* _make_request: local
    current_delay,        \* _make_request: local
    response,             \* _make_request: outcome of the last requests.get
    mr,                   \* what _make_request handed to its caller
    result,               \* what get_all_papers_by_date_range handed to its caller
    attempts,             \* history: requests.get issued in this logical call
    backoffs,             \* history: backoff sleeps of this logical call
    since_issue,          \* history: time since the most recent requests.get
    gap,                  \* history: time between the last two requests.get
    req_offsets,          \* history: offsets of the page calls of this fetch
    served,               \* history: records of the 2xx payloads of this fetch
    page_lens,            \* history: records each page call of this fetch returned (-1: it raised)
    calls,                \* history: fetches started
    journals,             \* the journals table, rows in rowid order
    adds,                 \* history: add_journal calls made
    last_journal_data,    \* history: the argument of the last add_journal
    read,                 \* the call that read the store and whose value the caller holds
    filtering,            \* the last filter_excluded_terms call: arguments, return value, output
    kw_pc,                \* get_recent_papers_by_keywords: control position
    keywords,             \* get_recent_papers_by_keywords: keywords still to search
    max_results_per_keyword, \* get_recent_papers_by_keywords: parameter
    results,              \* get_recent_papers_by_keywords: local, in keyword order
    search_result         \* what get_recent_papers_by_keywords handed to its caller

clientVars == <<elapsed_time, pc, max_results, all_papers, offset,
                consecutive_failures, current_retries, current_delay,
                response, mr, result, attempts, backoffs, since_issue,
                gap, req_offsets, served, page_lens, calls>>

vars == <<elapsed_time, pc, max_results, all_papers, offset,
          consecutive_failures, current_retries, current_delay,
          response, mr, result, attempts, backoffs, since_issue,
          gap, req_offsets, served, page_lens, calls,
          journals, adds, last_journal_data,
          read, filtering,
          kw_pc, keywords, max_results_per_keyword, results, search_result>>

storeVars == <<journals, adds, last_journal_data>>

searchVars == <<kw_pc, keywords, max_results_per_keyword, results, search_result>>

\* What the client's own steps leave alone.
otherVars == <<journals, adds, last_journal_data, read, filtering>>

(***************************************************************************)
(* Bounds of the model.                                                    *)
(***************************************************************************)
\* Fetches (calls of get_all_papers_by_date_range) in one run of the process.
MaxCalls == 2

\* The round trip of requests.get, in tenths of a second: a fast one, shorter
\* than REQUEST_DELAY, and a slow one, longer.
FastLatency == 3

MaxLatency == 12

\* The clock when the client is constructed (last_request_time is 0 then).
StartTime == 1000

\* add_journal calls in one run.
MaxAdds == 2

Latencies == {FastLatency, MaxLatency}

\* The max_results a caller passes.
MaxResultsChoices == {0 - 100, 0, 1, 100, 150, 250}

\* The number of records the server puts in a 2xx page.
PageSizes == {0, 1, 99, 100}

StatusCodes == {200, 400, 401, 403, 404, 429, 500}

NoTime == 0 - 1

(***************************************************************************)
(* Program constants.                                                      *)
(***************************************************************************)
REQUEST_DELAY == 11

retries == 3

delay == 5 * 10

limit == 100

max_consecutive_failures == 2

pagination_pause == 5 * 10

years_active == 5

(***************************************************************************)
(* Values.                                                                 *)
(***************************************************************************)
NoResponse == [transport |-> "none", status_code |-> 0, n |-> 0]

\* What the server (or the network) answers to one requests.get.
ServerOutcomes ==
    {[transport |-> "ok", status_code |-> 200, n |-> k] : k \in PageSizes}
    \cup {[transport |-> "ok", status_code |-> s, n |-> 0] : s \in StatusCodes \ {200}}
    \cup {[transport |-> e, status_code |-> 0, n |-> 0] :
             e \in {"ConnectionError", "Timeout", "RequestException"}}

Nothing == [kind |-> "none", data |-> <<>>, exc |-> "none"]

Return(d) == [kind |-> "return", data |-> d, exc |-> "none"]

Raise(e) == [kind |-> "raise", data |-> <<>>, exc |-> e]

\* The number of records a finished _make_request handed over.
Returned(m) == IF m.kind = "return" THEN Len(m.data) ELSE -1

\* The "data" array of the page at offset o with n records.
Page(o, n) == [i \in 1..n |-> o + i]

(***************************************************************************)
(* SemanticScholarAPIClient                                                *)
(***************************************************************************)
\* _ensure_delay, lines 26-29: the time it sleeps.
time_to_wait(elapsed) ==
    IF elapsed < REQUEST_DELAY THEN REQUEST_DELAY - elapsed ELSE 0

\* A history clock d later.
Later(t, d) == IF t = NoTime THEN NoTime ELSE t + d

\* response.raise_for_status(): TRUE when it raises HTTPError.
raise_for_status(status_code) == status_code \in 400..599

\* Classify with the 401/403 branch lost: the status falls to the final else.
Classify_AuthRetried(o) ==
    IF o.transport = "ok" /\ ~raise_for_status(o.status_code) THEN "json"
    ELSE IF o.transport = "ok" THEN
        IF o.status_code = 429 THEN "rate_limited"
        ELSE IF o.status_code = 400 THEN "bad_request"
        ELSE "http_error"
    ELSE IF o.transport \in {"ConnectionError", "Timeout"} THEN "network_error"
    ELSE "request_error"

\* Classify with the 400 branch lost: the status falls to the final else.
Classify_BadRequestRetried(o) ==
    IF o.transport = "ok" /\ ~raise_for_status(o.status_code) THEN "json"
    ELSE IF o.transport = "ok" THEN
        IF o.status_code = 401 \/ o.status_code = 403 THEN "auth"
        ELSE IF o.status_code = 429 THEN "rate_limited"
        ELSE "http_error"
    ELSE IF o.transport \in {"ConnectionError", "Timeout"} THEN "network_error"
    ELSE "request_error"

\* The branch of _make_request's try/except that an outcome takes.
Classify(o) ==
    IF o.transport = "ok" /\ ~raise_for_status(o.status_code) THEN "json"
    ELSE IF o.transport = "ok" THEN
        IF o.status_code = 401 \/ o.status_code = 403 THEN "auth"
        ELSE IF o.status_code = 429 THEN "rate_limited"
        ELSE IF o.status_code = 400 THEN "bad_request"
        ELSE "http_error"
    ELSE IF o.transport \in {"ConnectionError", "Timeout"} THEN "network_error"
    ELSE "request_error"

\* The branches that sleep, count one retry and double the delay.
Retryable(c) == c \in {"rate_limited", "http_error", "network_error", "request_error"}

\* Backoff with the increment of current_retries lost.
Backoff_Uncounted(cr, cd) == [sleep |-> cd, current_retries |-> cr, current_delay |-> cd * 2]

\* Backoff with the doubling of current_delay lost.
Backoff_Constant(cr, cd) == [sleep |-> cd, current_retries |-> cr + 1, current_delay |-> cd]

\* time.sleep(current_delay); current_retries += 1; current_delay *= 2
Backoff(cr, cd) == [sleep |-> cd, current_retries |-> cr + 1, current_delay |-> cd * 2]

\* Line 66: the value returned for a 400.
BadRequestResult == Return(<<>>)

\* The exhausted budget raising instead of returning.
ExhaustedResult_Raises == Raise("RequestException")

\* Line 93: the value returned when the retry budget is exhausted.
ExhaustedResult == Return(<<>>)

\* The value _make_request hands over in a branch that ends the call.
Outcome(c, o, off) ==
    IF c = "json" THEN Return(Page(off, o.n))
    ELSE IF c = "auth" THEN Raise("ValueError")
    ELSE BadRequestResult

Init ==
    /\ elapsed_time = StartTime
    /\ pc = "idle"
    /\ max_results = 0
    /\ all_papers = <<>>
    /\ offset = 0
    /\ consecutive_failures = 0
    /\ current_retries = 0
    /\ current_delay = delay
    /\ response = NoResponse
    /\ mr = Nothing
    /\ result = Nothing
    /\ attempts = 0
    /\ backoffs = <<>>
    /\ since_issue = NoTime
    /\ gap = NoTime
    /\ req_offsets = <<>>
    /\ served = <<>>
    /\ page_lens = <<>>
    /\ calls = 0
    /\ journals = <<>>
    /\ adds = 0
    /\ last_journal_data = <<>>
    /\ read = [op |-> "none"]
    /\ filtering = [op |-> "none"]
    /\ kw_pc = "none"
    /\ keywords = <<>>
    /\ max_results_per_keyword = 0
    /\ results = <<>>
    /\ search_result = Nothing

\* get_all_papers_by_date_range, lines 139-156: the call and its locals.
get_all_papers_by_date_range(M) ==
    /\ pc = "idle"
    /\ calls < MaxCalls
    /\ calls' = calls + 1
    /\ max_results' = M
    /\ all_papers' = <<>>
    /\ offset' = 0
    /\ consecutive_failures' = 0
    /\ result' = Nothing
    /\ mr' = Nothing
    /\ response' = NoResponse
    /\ req_offsets' = <<>>
    /\ served' = <<>>
    /\ page_lens' = <<>>
    /\ pc' = "while"
    /\ UNCHANGED <<elapsed_time, current_retries, current_delay,
                   attempts, backoffs, since_issue, gap, otherVars>>

\* Line 158: the loop test; then either the page call (get_papers_by_date_range
\* -> search_papers -> _make_request) or lines 198-199, the return.
BelowTarget_Inclusive(count, target) == count <= target

\* Line 158: `while len(all_papers) < max_results`.
BelowTarget(count, target) == count < target

WhileTest ==
    /\ pc = "while"
    /\ IF BelowTarget(Len(all_papers), max_results)
       THEN /\ pc' = "call"
            /\ req_offsets' = Append(req_offsets, offset)
            /\ result' = result
       ELSE /\ pc' = "idle"
            /\ result' = Return(all_papers)
            /\ req_offsets' = req_offsets
    /\ UNCHANGED <<elapsed_time, max_results, all_papers, offset,
                   consecutive_failures, current_retries, current_delay,
                   response, mr, attempts, backoffs, since_issue, gap,
                   served, page_lens, calls, otherVars, searchVars>>

\* _make_request, lines 39-42: the gate, then the locals of the retry loop.
_make_request ==
    /\ pc = "call"
    /\ since_issue' = Later(since_issue, time_to_wait(elapsed_time))
    /\ elapsed_time' = 0
    /\ current_retries' = 0
    /\ current_delay' = delay
    /\ attempts' = 0
    /\ backoffs' = <<>>
    /\ pc' = "loop"
    /\ UNCHANGED <<max_results, all_papers, offset, consecutive_failures,
                   response, mr, result, gap, req_offsets, served,
                   page_lens, calls, otherVars, searchVars>>

\* Lines 44-48 and 92-93: the loop test; requests.get is issued, or the budget
\* is exhausted and the empty result returned.
Attempt ==
    /\ pc = "loop"
    /\ IF current_retries < retries
       THEN /\ pc' = "inflight"
            /\ attempts' = attempts + 1
            /\ gap' = since_issue
            /\ since_issue' = 0
            /\ UNCHANGED <<mr, page_lens>>
       ELSE /\ pc' = "ret"
            /\ mr' = ExhaustedResult
            /\ page_lens' = Append(page_lens, Returned(mr'))
            /\ UNCHANGED <<attempts, gap, since_issue>>
    /\ UNCHANGED <<elapsed_time, max_results, all_papers, offset,
                   consecutive_failures, current_retries, current_delay,
                   response, result, backoffs, req_offsets, served, calls,
                   otherVars, searchVars>>

\* Lines 46-90: the answer to requests.get arrives after lat and is handled.
Respond(o, lat) ==
    /\ pc = "inflight"
    /\ response' = o
    /\ LET c == Classify(o)
           b == Backoff(current_retries, current_delay)
       IN IF Retryable(c)
          THEN /\ elapsed_time' = elapsed_time + lat + b.sleep
               /\ since_issue' = since_issue + lat + b.sleep
               /\ current_retries' = b.current_retries
               /\ current_delay' = b.current_delay
               /\ backoffs' = Append(backoffs, b.sleep)
               /\ pc' = "loop"
               /\ UNCHANGED <<mr, served, page_lens>>
          ELSE /\ elapsed_time' = elapsed_time + lat
               /\ since_issue' = since_issue + lat
               /\ mr' = Outcome(c, o, offset)
               /\ served' = IF c = "json" THEN served \o Page(offset, o.n) ELSE served
               /\ page_lens' = Append(page_lens, Returned(mr'))
               /\ pc' = "ret"
               /\ UNCHANGED <<current_retries, current_delay, backoffs>>
    /\ UNCHANGED <<max_results, all_papers, offset, consecutive_failures,
                   result, attempts, gap, req_offsets, calls, otherVars, searchVars>>

\* Extend assigning the page instead of extending the list with it.
Extend_Overwrite(papers, papers_page) == papers_page

\* all_papers.extend(papers_page)
Extend(papers, papers_page) == papers \o papers_page

\* NextOffset with the advance lost.
NextOffset_Stuck(off) == off

\* offset += limit
NextOffset(off) == off + limit

\* PageVerdict without the short-page break of lines 180-184.
PageVerdict_ShortContinues(papers_page) ==
    IF Len(papers_page) = 0 THEN "no_more" ELSE "full"

\* PageVerdict with an empty page taken for one to go on from.
PageVerdict_EmptyContinues(papers_page) ==
    IF Len(papers_page) = 0 THEN "full"
    ELSE IF Len(papers_page) < limit THEN "short"
    ELSE "full"

\* Lines 169-184: what the loop does with the page it got.
PageVerdict(papers_page) ==
    IF Len(papers_page) = 0 THEN "no_more"
    ELSE IF Len(papers_page) < limit THEN "short"
    ELSE "full"

\* TooManyFailures stopping at the first failure.
TooManyFailures_AtFirst(failures) == failures >= 1

\* Line 190: consecutive_failures >= max_consecutive_failures
TooManyFailures(failures) == failures >= max_consecutive_failures

\* Lines 159-196: _make_request is back; search_papers takes "data", and the
\* loop body of get_all_papers_by_date_range runs to the next loop test, to the
\* return of lines 198-199, or lets the exception through.
PageReturn ==
    /\ pc = "ret"
    /\ IF mr.kind = "raise" /\ mr.exc = "RequestException"
       THEN /\ consecutive_failures' = consecutive_failures + 1
            /\ UNCHANGED <<all_papers, offset>>
            /\ IF TooManyFailures(consecutive_failures + 1)
               THEN /\ pc' = "idle"
                    /\ result' = Return(all_papers)
                    /\ UNCHANGED <<elapsed_time, since_issue>>
               ELSE /\ pc' = "while"
                    /\ result' = result
                    /\ elapsed_time' = elapsed_time + pagination_pause
                    /\ since_issue' = Later(since_issue, pagination_pause)
       ELSE IF mr.kind = "raise"
       THEN /\ pc' = "idle"
            /\ result' = Raise(mr.exc)
            /\ UNCHANGED <<all_papers, offset, consecutive_failures,
                           elapsed_time, since_issue>>
       ELSE LET papers_page == mr.data
                v == PageVerdict(papers_page)
            IN IF v = "no_more"
               THEN /\ pc' = "idle"
                    /\ result' = Return(all_papers)
                    /\ UNCHANGED <<all_papers, offset, consecutive_failures,
                                   elapsed_time, since_issue>>
               ELSE /\ all_papers' = Extend(all_papers, papers_page)
                    /\ offset' = NextOffset(offset)
                    /\ consecutive_failures' = 0
                    /\ UNCHANGED <<elapsed_time, since_issue>>
                    /\ IF v = "short"
                       THEN /\ pc' = "idle"
                            /\ result' = Return(all_papers')
                       ELSE /\ pc' = "while"
                            /\ result' = result
    /\ UNCHANGED <<max_results, current_retries, current_delay, response,
                   mr, attempts, backoffs, gap, req_offsets, served,
                   page_lens, calls, otherVars, searchVars>>

Next ==
    \/ \E M \in MaxResultsChoices :
           get_all_papers_by_date_range(M) /\ UNCHANGED searchVars
    \/ WhileTest
    \/ _make_request
    \/ Attempt
    \/ \E o \in ServerOutcomes, lat \in Latencies : Respond(o, lat)
    \/ PageReturn

Spec == Init /\ [][Next]_vars

\* The thread runs on: no step of the program waits for anything but the
\* clock and the answer to requests.get, which comes within its timeout.
FairSpec == Spec /\ WF_vars(Next)

(***************************************************************************)
(* get_all_papers_by_date_range taken alone.  Its handler of lines 186-196 *)
(* is written for a page call that lets a RequestException through, which  *)
(* _make_request as it stands never does; here the page call is any method *)
(* of the signature of get_papers_by_date_range: it returns a list of at   *)
(* most limit records or raises.                                           *)
(***************************************************************************)
PageCallOutcomes ==
    {"return", "RequestException", "ValueError"}

\* Lines 160-167: the page call, as seen by its caller.
get_papers_by_date_range(out, n) ==
    /\ pc = "call"
    /\ mr' = IF out = "return" THEN Return(Page(offset, n)) ELSE Raise(out)
    /\ served' = IF out = "return" THEN served \o Page(offset, n) ELSE served
    /\ page_lens' = Append(page_lens, Returned(mr'))
    /\ pc' = "ret"
    /\ UNCHANGED <<elapsed_time, max_results, all_papers, offset,
                   consecutive_failures, current_retries, current_delay,
                   response, result, attempts, backoffs, since_issue, gap,
                   req_offsets, calls, otherVars, searchVars>>

FetcherNext ==
    \/ \E M \in MaxResultsChoices :
           get_all_papers_by_date_range(M) /\ UNCHANGED searchVars
    \/ WhileTest
    \/ \E out \in PageCallOutcomes, n \in PageSizes : get_papers_by_date_range(out, n)
    \/ PageReturn

FetcherSpec == Init /\ [][FetcherNext]_vars

(***************************************************************************)
(* recent_papers_search.get_recent_papers_by_keywords, called with the     *)
(* default exclude_terms (None): one fetch for each keyword in turn.       *)
(***************************************************************************)
\* The keyword lists: one keyword, two, and one keyword twice.
KeywordLists == {<<"IBD">>, <<"IBD", "colitis">>, <<"IBD", "IBD">>}

\* max_results_per_keyword
PerKeywordChoices == {1, 150}

\* Lines 10-22: the call and its locals.
get_recent_papers_by_keywords(ks, M) ==
    /\ kw_pc = "none"
    /\ pc = "idle"
    /\ calls = 0
    /\ keywords' = ks
    /\ max_results_per_keyword' = M
    /\ results' = <<>>
    /\ search_result' = Nothing
    /\ kw_pc' = "for"
    /\ UNCHANGED <<clientVars, otherVars>>

\* Lines 23-32 and 43: the next keyword's fetch is started, or the dict is
\* returned.
ForKeyword ==
    /\ kw_pc = "for"
    /\ IF keywords # <<>>
       THEN /\ get_all_papers_by_date_range(max_results_per_keyword)
            /\ kw_pc' = "try"
            /\ UNCHANGED <<keywords, max_results_per_keyword, results, search_result>>
       ELSE /\ kw_pc' = "done"
            /\ search_result' = Return(results)
            /\ UNCHANGED <<keywords, max_results_per_keyword, results,
                           clientVars, otherVars>>

\* Lines 26-41: the fetch is over; its list is stored under the keyword, or
\* the handler of "except Exception" stores the empty list.
KeywordDone ==
    /\ kw_pc = "try"
    /\ pc = "idle"
    /\ results' = (Head(keywords) :> (IF result.kind = "return" THEN result.data
                                      ELSE <<>>)) @@ results
    /\ keywords' = Tail(keywords)
    /\ kw_pc' = "for"
    /\ UNCHANGED <<max_results_per_keyword, search_result, clientVars, otherVars>>

SearchNext ==
    \/ \E ks \in KeywordLists, M \in PerKeywordChoices :
           get_recent_papers_by_keywords(ks, M)
    \/ ForKeyword
    \/ WhileTest
    \/ _make_request
    \/ Attempt
    \/ \E o \in ServerOutcomes, lat \in Latencies : Respond(o, lat)
    \/ PageReturn
    \/ KeywordDone

SearchSpec == Init /\ [][SearchNext]_vars

(***************************************************************************)
(* JournalImpactAnalyzer: the journals table.                              *)
(*                                                                         *)
(* A dict is a function from the keys it holds; None is the string "None". *)
(***************************************************************************)
None == "None"

\* dict.get(key, default)
Get(d, key, default) == IF key \in DOMAIN d THEN d[key] ELSE default

AbsentStr == "<absent>"

AbsentInt == 0 - 1

\* The dict {key: v}, or the empty dict when v marks the key as absent.
OptStr(key, v) == IF v = AbsentStr THEN <<>> ELSE key :> v

OptInt(key, v) == IF v = AbsentInt THEN <<>> ELSE key :> v

\* The (works_count, cited_by_count) an upstream record carries: absent, no
\* works, exact thousandths, a quotient to round, and two ties (1/16/5 =
\* 0.0125, 3/16/5 = 0.0375).
CountChoices == {<<AbsentInt, AbsentInt>>, <<0, 500>>, <<100, 500>>, <<3, 1>>,
                 <<16, 1>>, <<16, 3>>}

\* The names and alternate keys it carries.
LabelChoices == {<<AbsentStr, AbsentStr, AbsentInt>>, <<"Gut", "3333", 7>>}

\* The journal_data dicts add_journal is called with.
JournalInputs ==
    {OptStr("issn_l", k) @@ OptStr("display_name", l[1]) @@ OptStr("issn_print", l[2])
         @@ OptInt("h_index", l[3]) @@ OptInt("works_count", c[1])
         @@ OptInt("cited_by_count", c[2]) @@ OptInt("impact_factor", f) :
     k \in {AbsentStr, "1111", "2222"}, l \in LabelChoices, c \in CountChoices,
     f \in {AbsentInt, 9999}}

\* round(num / den, 3) in thousandths, for num >= 0 and den > 0: the nearest
\* thousandth.  On an exact tie the float quotient lies a rounding error above
\* or below the half, and round() goes either way.
round3(num, den) ==
    LET q == (1000 * num) \div den
        r == (1000 * num) % den
    IN IF 2 * r < den THEN {q}
       ELSE IF 2 * r > den THEN {q + 1}
       ELSE {q, q + 1}

\* calculate_impact_factor: the values it may return, in thousandths.
calculate_impact_factor(cited_by_count, works_count, years) ==
    IF works_count = 0 \/ years = 0 THEN {0}
    ELSE round3(cited_by_count, works_count * years)

\* NewRow storing the impact factor of the input record when it has one.
NewRow_Verbatim(journal_data, impact_factor) ==
    [issn_l |-> Get(journal_data, "issn_l", None),
     display_name |-> Get(journal_data, "display_name", None),
     issn_print |-> Get(journal_data, "issn_print", None),
     issn_online |-> Get(journal_data, "issn_online", None),
     impact_factor |-> Get(journal_data, "impact_factor", impact_factor),
     works_count |-> Get(journal_data, "works_count", 0),
     cited_by_count |-> Get(journal_data, "cited_by_count", 0),
     h_index |-> Get(journal_data, "h_index", 0)]

\* add_journal, lines 52-71: the row that is written.
NewRow(journal_data, impact_factor) ==
    [issn_l |-> Get(journal_data, "issn_l", None),
     display_name |-> Get(journal_data, "display_name", None),
     issn_print |-> Get(journal_data, "issn_print", None),
     issn_online |-> Get(journal_data, "issn_online", None),
     impact_factor |-> impact_factor,
     works_count |-> Get(journal_data, "works_count", 0),
     cited_by_count |-> Get(journal_data, "cited_by_count", 0),
     h_index |-> Get(journal_data, "h_index", 0)]

\* InsertOrReplace without the primary key: every write adds a row.
InsertOrReplace_Insert(rows, row) == Append(rows, row)

\* INSERT OR REPLACE on a table whose primary key issn_l is TEXT: a row with
\* the same non-NULL key is deleted, and the new row takes the next rowid.  A
\* NULL key conflicts with no row.
InsertOrReplace(rows, row) ==
    LET Keep(r) == r.issn_l = None \/ r.issn_l # row.issn_l
    IN Append(SelectSeq(rows, Keep), row)

\* add_journal
add_journal(journal_data) ==
    /\ adds < MaxAdds
    /\ adds' = adds + 1
    /\ last_journal_data' = journal_data
    /\ \E impact_factor \in calculate_impact_factor(
                                Get(journal_data, "cited_by_count", 0),
                                Get(journal_data, "works_count", 0),
                                years_active) :
           journals' = InsertOrReplace(journals, NewRow(journal_data, impact_factor))
    /\ UNCHANGED <<clientVars, read, filtering, searchVars>>

StoreNext == \E journal_data \in JournalInputs : add_journal(journal_data)

StoreSpec == Init /\ [][StoreNext]_vars

(***************************************************************************)
(* Strings.                                                                *)
(*                                                                         *)
(* A string value is atomic; Chars gives the characters of the strings the *)
(* model uses.  "E-acute" and "e-acute" are the two cases of one letter    *)
(* outside ASCII, written "{E-acute}" and "{e-acute}" inside a string.     *)
(***************************************************************************)
Chars ==
    ("" :> <<>>)
    @@ ("Gu" :> <<"G", "u">>)
    @@ ("gu" :> <<"g", "u">>)
    @@ ("GU" :> <<"G", "U">>)
    @@ ("gut" :> <<"g", "u", "t">>)
    @@ ("Gu!" :> <<"G", "u", "!">>)
    @@ ("g_" :> <<"g", "_">>)
    @@ ("zz" :> <<"z", "z">>)
    @@ ("{E-acute}" :> <<"E-acute">>)
    @@ ("{e-acute}" :> <<"e-acute">>)
    @@ ("g{e-acute}" :> <<"g", "e-acute">>)
    @@ ("mi" :> <<"m", "i">>)
    @@ ("Mi" :> <<"M", "i">>)
    @@ ("a Mi" :> <<"a", " ", "M", "i">>)
    @@ ("m" :> <<"m">>)
    @@ ("i" :> <<"i">>)
    @@ ("I" :> <<"I">>)

\* str.lower(), one character: Unicode case mapping.
lower_char(c) ==
    CASE c = "G" -> "g"
      [] c = "U" -> "u"
      [] c = "M" -> "m"
      [] c = "I" -> "i"
      [] c = "E-acute" -> "e-acute"
      [] OTHER -> c

\* str.lower()
lower(s) == [i \in 1..Len(s) |-> lower_char(s[i])]

\* SQLite's LOWER() and the case folding of its LIKE, one character: the
\* built-in functions fold the 26 letters of ASCII and no other.
sqlite_lower_char(c) ==
    CASE c = "G" -> "g"
      [] c = "U" -> "u"
      [] c = "M" -> "m"
      [] c = "I" -> "i"
      [] OTHER -> c

\* LOWER(X)
LOWER(s) == [i \in 1..Len(s) |-> sqlite_lower_char(s[i])]

\* \w of a str pattern: letters, digits and the underscore.
IsWord(c) == c \notin {" ", "!", "-", "%"}

\* \s
IsSpace(c) == c = " "

\* re.sub(r"[^\w\s]", " ", s)
sub_nonword(s) ==
    [i \in 1..Len(s) |-> IF IsWord(s[i]) \/ IsSpace(s[i]) THEN s[i] ELSE " "]

RECURSIVE lstrip(_)
\* str.lstrip()
lstrip(s) == IF s # <<>> /\ IsSpace(Head(s)) THEN lstrip(Tail(s)) ELSE s

RECURSIVE rstrip(_)
\* str.rstrip()
rstrip(s) ==
    IF s # <<>> /\ IsSpace(s[Len(s)]) THEN rstrip(SubSeq(s, 1, Len(s) - 1)) ELSE s

\* str.strip()
strip(s) == rstrip(lstrip(s))

RECURSIVE sub_spaces(_)
\* re.sub(r"\s+", " ", s)
sub_spaces(s) ==
    IF s = <<>> THEN <<>>
    ELSE IF IsSpace(Head(s)) THEN <<" ">> \o sub_spaces(lstrip(s))
    ELSE <<Head(s)>> \o sub_spaces(Tail(s))

\* get_journal_by_name, lines 117-118
normalized_name(name) == sub_spaces(strip(sub_nonword(lower(name))))

RECURSIVE LIKE(_, _)
\* X LIKE Y of SQLite, s the characters of X and pat those of Y: % matches any
\* run of characters, _ any one character, and any other character itself
\* up to the case of an ASCII letter.
LIKE(s, pat) ==
    IF pat = <<>> THEN s = <<>>
    ELSE IF Head(pat) = "%" THEN LIKE(s, Tail(pat)) \/ (s # <<>> /\ LIKE(Tail(s), pat))
    ELSE /\ s # <<>>
         /\ Head(pat) = "_" \/ sqlite_lower_char(Head(pat)) = sqlite_lower_char(Head(s))
         /\ LIKE(Tail(s), Tail(pat))

\* needle in haystack, of two str
Contains(haystack, needle) ==
    \E i \in 0..(Len(haystack) - Len(needle)) :
        SubSeq(haystack, i + 1, i + Len(needle)) = needle

(***************************************************************************)
(* JournalImpactAnalyzer: the lookups, the score and the sort.             *)
(*                                                                         *)
(* A score is counted in thousandths, like an impact factor.  None where a *)
(* dict is expected is NoneDict.  A SELECT without ORDER BY, and one whose *)
(* ORDER BY leaves a tie, may hand any of its rows to fetchone().          *)
(***************************************************************************)
NoneDict == <<>>

\* The truth value of an Optional[str].
Truthy(x) == x # None /\ x # ""

Min(a, b) == IF a < b THEN a ELSE b

\* The columns the two lookups select, as the dict they return.
Project(r) ==
    [issn_l |-> r.issn_l, display_name |-> r.display_name,
     impact_factor |-> r.impact_factor, h_index |-> r.h_index,
     works_count |-> r.works_count]

RowSet(rows) == {rows[i] : i \in 1..Len(rows)}

\* cursor.fetchone() and the "if result" after it.
fetchone(selected, selects) ==
    IF selected = {} THEN {[ret |-> NoneDict, selects |-> selects]}
    ELSE {[ret |-> Project(r), selects |-> selects] : r \in selected}

\* WHERE with the alternate keys left out.
WhereIssn_PrimaryOnly(r, issn) == r.issn_l = issn

\* Lines 86-93: WHERE issn_l = ? OR issn_print = ? OR issn_online = ?
WhereIssn(r, issn) == r.issn_l = issn \/ r.issn_print = issn \/ r.issn_online = issn

\* get_journal_by_issn: what it may return, with the SELECTs it executed.
get_journal_by_issn(rows, issn) ==
    IF ~Truthy(issn) THEN {[ret |-> NoneDict, selects |-> 0]}
    ELSE fetchone({r \in RowSet(rows) : WhereIssn(r, issn)}, 1)

\* Lines 121-128: WHERE LOWER(display_name) = ?, bound to name.lower()
WhereExact(r, name) ==
    r.display_name # None /\ LOWER(Chars[r.display_name]) = lower(Chars[name])

\* Lines 134-143: WHERE LOWER(display_name) LIKE ?, bound to %normalized_name%
WherePartial(r, name) ==
    /\ r.display_name # None
    /\ LIKE(LOWER(Chars[r.display_name]),
            <<"%">> \o normalized_name(Chars[name]) \o <<"%">>)

\* ORDER BY impact_factor DESC LIMIT 1
OrderByImpactLimit1(selected) ==
    {r \in selected : \A q \in selected : q.impact_factor <= r.impact_factor}

\* get_journal_by_name: what it may return, with the SELECTs it executed.
get_journal_by_name(rows, name) ==
    IF ~Truthy(name) THEN {[ret |-> NoneDict, selects |-> 0]}
    ELSE LET exact == {r \in RowSet(rows) : WhereExact(r, name)}
             partial == {r \in RowSet(rows) : WherePartial(r, name)}
         IN IF exact # {} THEN fetchone(exact, 1)
            ELSE fetchone(OrderByImpactLimit1(partial), 2)

\* Lines 161-166: the identifier of the paper.
issn_of(paper) ==
    LET external_ids == Get(paper, "externalIds", <<>>)
    IN IF "ISSN" \in DOMAIN external_ids THEN external_ids["ISSN"]
       ELSE IF "issn" \in DOMAIN external_ids THEN external_ids["issn"]
       ELSE None

\* base_score without the cap of line 182.
base_score_Uncapped(journal_data) ==
    IF journal_data # NoneDict THEN journal_data.impact_factor * 10
    ELSE 10 * 1000

\* Lines 180-184
base_score(journal_data) ==
    IF journal_data # NoneDict THEN Min(100 * 1000, journal_data.impact_factor * 10)
    ELSE 10 * 1000

\* citation_bonus without the cap of line 188.
citation_bonus_Uncapped(paper) == Get(paper, "citationCount", 0) * 2 * 1000

\* Lines 187-188
citation_bonus(paper) == Min(20, Get(paper, "citationCount", 0) * 2) * 1000

\* get_paper_impact_score with the lookups the other way round: the venue
\* name first, the identifier when the name found nothing.
get_paper_impact_score_NameFirst(rows, paper) ==
    LET issn == issn_of(paper)
        venue == Get(paper, "venue", "")
        by_issn == IF Truthy(issn)
                   THEN {f.ret : f \in get_journal_by_issn(rows, issn)}
                   ELSE {NoneDict}
        by_name == IF Truthy(venue)
                   THEN {f.ret : f \in get_journal_by_name(rows, venue)}
                   ELSE {NoneDict}
        found == {[journal_data |-> j, by |-> "name"] : j \in by_name \ {NoneDict}}
                 \cup (IF NoneDict \in by_name
                       THEN {[journal_data |-> j,
                              by |-> IF j = NoneDict THEN "none" ELSE "issn"] :
                             j \in by_issn}
                       ELSE {})
    IN {[journal_data |-> f.journal_data, by |-> f.by,
         score |-> base_score(f.journal_data) + citation_bonus(paper)] : f \in found}

\* get_paper_impact_score: the journal record it may find, how, and the score.
get_paper_impact_score(rows, paper) ==
    LET issn == issn_of(paper)
        venue == Get(paper, "venue", "")
        by_issn == IF Truthy(issn)
                   THEN {f.ret : f \in get_journal_by_issn(rows, issn)}
                   ELSE {NoneDict}
        by_name == IF Truthy(venue)
                   THEN {f.ret : f \in get_journal_by_name(rows, venue)}
                   ELSE {NoneDict}
        found == {[journal_data |-> j, by |-> "issn"] : j \in by_issn \ {NoneDict}}
                 \cup (IF NoneDict \in by_issn
                       THEN {[journal_data |-> j,
                              by |-> IF j = NoneDict THEN "none" ELSE "name"] :
                             j \in by_name}
                       ELSE {})
    IN {[journal_data |-> f.journal_data, by |-> f.by,
         score |-> base_score(f.journal_data) + citation_bonus(paper)] : f \in found}

\* StaysAhead keeping only the greater keys ahead: a sort that is not stable.
StaysAhead_Strict(key, new_key) == key > new_key

\* sorted(..., reverse=True): an item already placed stays ahead of a new one
\* unless its key is smaller, equal keys keeping the order of the input.
StaysAhead(key, new_key) == key >= new_key

\* The positions placed so far with position i placed among them.
Place(order, i, keys) ==
    SelectSeq(order, LAMBDA e : StaysAhead(keys[e], keys[i]))
    \o <<i>>
    \o SelectSeq(order, LAMBDA e : ~StaysAhead(keys[e], keys[i]))

RECURSIVE PlaceFrom(_, _, _)
PlaceFrom(order, i, keys) ==
    IF i > Len(keys) THEN order ELSE PlaceFrom(Place(order, i, keys), i + 1, keys)

\* sorted(papers, key=..., reverse=True), as the positions of the input in
\* the order of the output, for the keys computed once for each item.
sorted_reverse(keys) == PlaceFrom(<<>>, 1, keys)

\* The journal records of the bulk population that the lookups are tried on:
\* "1111" is the key of two and an alternate key of a third, "Gu" the name
\* of two, and gut, g{e-acute} contain the lowercased Gu, {E-acute}.
ScoreJournals ==
    { ("issn_l" :> "1111") @@ ("display_name" :> "Gu") @@ ("issn_print" :> "3333")
          @@ ("works_count" :> 100) @@ ("cited_by_count" :> 500),
      ("issn_l" :> "2222") @@ ("display_name" :> "gut") @@ ("issn_online" :> "1111")
          @@ ("works_count" :> 100) @@ ("cited_by_count" :> 10000),
      ("issn_l" :> "1111") @@ ("display_name" :> "{E-acute}")
          @@ ("works_count" :> 100) @@ ("cited_by_count" :> 100),
      ("issn_l" :> "3333") @@ ("display_name" :> "g{e-acute}")
          @@ ("works_count" :> 100) @@ ("cited_by_count" :> 500),
      ("display_name" :> "Gu"),
      ("issn_l" :> "2222") @@ ("works_count" :> 100) @@ ("cited_by_count" :> 500) }

\* The identifiers and names the lookups are called with.
IssnChoices == {None, "", "1111", "2222", "3333", "9999"}

NameChoices == {None, "", "Gu", "gu", "GU", "Gu!", "g_", "gut", "zz",
                "{E-acute}", "{e-acute}"}

AbsentDict == "absent" :> TRUE

OptDict(key, v) == IF v = AbsentDict THEN <<>> ELSE key :> v

ExternalIdsChoices ==
    {AbsentDict, <<>>, "DOI" :> "10.1/x", "ISSN" :> "1111", "issn" :> "3333",
     "ISSN" :> "9999", ("ISSN" :> "") @@ ("issn" :> "1111")}

\* The paper records the score is taken of.
PaperChoices ==
    {OptDict("externalIds", x) @@ OptStr("venue", v) @@ OptInt("citationCount", c) :
     x \in ExternalIdsChoices,
     v \in (NameChoices \ {None, "gu", "{e-acute}"}) \cup {AbsentStr},
     c \in {AbsentInt, 5, 11}}

\* Papers in one list to sort.
MaxPapers == 3

\* The papers of the lists that are sorted.
SortChoices ==
    {("externalIds" :> ("ISSN" :> "1111")) @@ ("citationCount" :> 5),
     ("venue" :> "gut") @@ ("citationCount" :> 11),
     ("venue" :> "zz") @@ ("citationCount" :> 5),
     ("venue" :> "zz") @@ ("externalIds" :> <<>>) @@ ("citationCount" :> 5)}

PaperLists == UNION {[1..n -> SortChoices] : n \in 0..MaxPapers}

\* get_journal_by_issn
LookupIssn(issn) ==
    /\ read.op = "none"
    /\ \E f \in get_journal_by_issn(journals, issn) :
           read' = [op |-> "get_journal_by_issn", arg |-> issn,
                    ret |-> f.ret, selects |-> f.selects]
    /\ UNCHANGED <<clientVars, storeVars, filtering, searchVars>>

\* get_journal_by_name keeping a record of the names it did not find: a
\* lookup that writes to the table.
LookupName_RecordsMiss(name) ==
    /\ read.op = "none"
    /\ \E f \in get_journal_by_name(journals, name) :
           /\ read' = [op |-> "get_journal_by_name", arg |-> name,
                       ret |-> f.ret, selects |-> f.selects]
           /\ journals' = IF f.ret = NoneDict /\ Truthy(name)
                          THEN Append(journals, NewRow("display_name" :> name, 0))
                          ELSE journals
    /\ UNCHANGED <<clientVars, adds, last_journal_data, filtering, searchVars>>

\* get_journal_by_name
LookupName(name) ==
    /\ read.op = "none"
    /\ \E f \in get_journal_by_name(journals, name) :
           read' = [op |-> "get_journal_by_name", arg |-> name,
                    ret |-> f.ret, selects |-> f.selects]
    /\ UNCHANGED <<clientVars, storeVars, filtering, searchVars>>

\* get_paper_impact_score
ScorePaper(paper) ==
    /\ read.op = "none"
    /\ \E f \in get_paper_impact_score(journals, paper) :
           read' = [op |-> "get_paper_impact_score", arg |-> paper,
                    ret |-> f.score, journal_data |-> f.journal_data, by |-> f.by]
    /\ UNCHANGED <<clientVars, storeVars, filtering, searchVars>>

\* The scores get_paper_impact_score may give a paper.
ScoresOf(rows, paper) == {f.score : f \in get_paper_impact_score(rows, paper)}

\* sort_papers_by_impact: the key function is called once for each paper.
sort_papers_by_impact(papers) ==
    /\ read.op = "none"
    /\ \E keys \in [1..Len(papers) ->
                       UNION {ScoresOf(journals, papers[i]) : i \in 1..Len(papers)}] :
           /\ \A i \in 1..Len(papers) : keys[i] \in ScoresOf(journals, papers[i])
           /\ LET order == sorted_reverse(keys)
              IN read' = [op |-> "sort_papers_by_impact", arg |-> papers,
                          keys |-> keys, order |-> order,
                          ret |-> [k \in 1..Len(papers) |-> papers[order[k]]]]
    /\ UNCHANGED <<clientVars, storeVars, filtering, searchVars>>

\* The single thread goes on: the caller is done with the value of the call.
ReadDone ==
    /\ read.op # "none"
    /\ read' = [op |-> "none"]
    /\ UNCHANGED <<clientVars, storeVars, filtering, searchVars>>

\* The bulk population and the scoring path are calls of one thread, one at
\* a time.
ScoreNext ==
    \/ \E journal_data \in ScoreJournals : read.op = "none" /\ add_journal(journal_data)
    \/ \E issn \in IssnChoices : LookupIssn(issn)
    \/ \E name \in NameChoices : LookupName(name)
    \/ \E paper \in PaperChoices : ScorePaper(paper)
    \/ \E papers \in PaperLists : sort_papers_by_impact(papers)
    \/ ReadDone

ScoreSpec == Init /\ [][ScoreNext]_vars

(***************************************************************************)
(* paper_utils.filter_excluded_terms                                       *)
(***************************************************************************)
\* field_lower without the lowercasing of lines 18-19.
field_lower_AsWritten(paper, key) ==
    LET v == Get(paper, key, "")
    IN Chars[IF v = None THEN "" ELSE v]

\* Lines 16-19: paper.get(key, "") or "", lowercased.
field_lower(paper, key) ==
    LET v == Get(paper, key, "")
    IN lower(Chars[IF v = None THEN "" ELSE v])

\* Lines 21-23
excluded(paper, exclude_terms_lower) ==
    \E k \in 1..Len(exclude_terms_lower) :
        \/ Contains(field_lower(paper, "title"), exclude_terms_lower[k])
        \/ Contains(field_lower(paper, "abstract"), exclude_terms_lower[k])

\* The papers the filter is given: the term in the title, in the abstract
\* under a null title, split over the two fields, and in neither.
FilterChoices ==
    { "title" :> "Mi",
      ("title" :> None) @@ ("abstract" :> "a Mi"),
      ("title" :> "m") @@ ("abstract" :> "i"),
      ("title" :> "gut") @@ ("abstract" :> None),
      "abstract" :> "{E-acute}",
      <<>> }

FilterLists == UNION {[1..n -> FilterChoices] : n \in 0..MaxPapers}

\* exclude_terms; None and the empty list are alike to "not exclude_terms".
ExcludeTermsChoices ==
    {<<>>, <<"mi">>, <<"Mi">>, <<"zz", "I">>, <<"{e-acute}", "gu">>, <<"">>}

\* filter_excluded_terms, once in a run: the list returned and the lines
\* printed.
filter_excluded_terms(papers, exclude_terms) ==
    /\ filtering.op = "none"
    /\ IF exclude_terms = <<>>
       THEN filtering' = [op |-> "filter_excluded_terms", papers |-> papers,
                          exclude_terms |-> exclude_terms, ret |-> papers,
                          printed |-> <<>>]
       ELSE LET exclude_terms_lower ==
                    [k \in 1..Len(exclude_terms) |-> lower(Chars[exclude_terms[k]])]
                filtered_papers ==
                    SelectSeq(papers, LAMBDA paper : ~excluded(paper, exclude_terms_lower))
                excluded_count == Len(papers) - Len(filtered_papers)
            IN filtering' =
                   [op |-> "filter_excluded_terms", papers |-> papers,
                    exclude_terms |-> exclude_terms, ret |-> filtered_papers,
                    printed |-> IF excluded_count > 0
                                THEN <<[excluded |-> excluded_count,
                                        remaining |-> Len(filtered_papers)]>>
                                ELSE <<>>]
    /\ UNCHANGED <<clientVars, storeVars, read, searchVars>>

FilterNext ==
    \E papers \in FilterLists, exclude_terms \in ExcludeTermsChoices :
        filter_excluded_terms(papers, exclude_terms)

FilterSpec == Init /\ [][FilterNext]_vars

(***************************************************************************)
(* Properties of the client.                                               *)
(***************************************************************************)
IsAuth(o) == o.transport = "ok" /\ o.status_code \in {401, 403}

IsBadRequest(o) == o.transport = "ok" /\ o.status_code = 400

FetchEnded == pc = "idle" /\ calls > 0

Ceil(a, b) == (a + b - 1) \div b

\* C1: every requests.get, retries included, is preceded by the gate and a
\* stamp: while a request is in flight last_request_time is its issuance
\* time, and two consecutive requests are at least REQUEST_DELAY apart.
C1_GateWrapsEveryRequest ==
    /\ (pc = "inflight" => elapsed_time = since_issue)
    /\ (gap # NoTime => gap >= REQUEST_DELAY)

\* C2: a logical call issues at most `retries` requests, and every retryable
\* failure consumes exactly one unit of the budget: back at the loop test the
\* requests issued equal current_retries, and a request in flight is one more.
C2_AttemptsWithinBudget ==
    /\ attempts <= retries
    /\ (pc = "loop" => attempts = current_retries)
    /\ (pc = "inflight" => attempts = current_retries + 1)
    /\ (pc \in {"loop", "inflight", "ret"} => Len(backoffs) = current_retries)

C2_Witness ==
    /\ pc = "ret"
    /\ attempts = retries
    /\ current_retries = retries
    /\ response.transport = "Timeout"

\* C3: a logical call whose every attempt failed retryably until the budget
\* was exhausted returns {"data": []} and does not raise.
C3_ExhaustionReturnsEmpty ==
    (pc = "ret" /\ current_retries = retries) =>
        (mr = Return(<<>>) /\ attempts = retries)

C3_Witness ==
    /\ pc = "ret"
    /\ current_retries = retries
    /\ IsAuth(response) = FALSE
    /\ response.status_code = 429
    /\ mr = Return(<<>>)

\* C4: a 401 or 403 on any attempt raises to the caller at once: no backoff
\* sleep, no unit of the budget consumed, no further requests.get.
C4_AuthFailsFast ==
    [][/\ (pc = "inflight" /\ pc' # "inflight" /\ IsAuth(response')) =>
           /\ pc' = "ret"
           /\ mr' = Raise("ValueError")
           /\ current_retries' = current_retries
           /\ current_delay' = current_delay
           /\ backoffs' = backoffs
           /\ elapsed_time' - elapsed_time \in Latencies
       /\ (pc = "ret" /\ mr.kind = "raise") =>
           /\ pc' = "idle"
           /\ attempts' = attempts
           /\ gap' = gap]_vars

C4_Witness ==
    /\ pc = "ret"
    /\ response.transport = "ok"
    /\ response.status_code = 403
    /\ current_retries = 2
    /\ mr = Raise("ValueError")

\* C5: a 400 on any attempt returns {"data": []} at once (no sleep, no further
\* request, no exception), and the fetcher ends pagination on it as on an
\* empty page, returning what it has accumulated.
C5_BadRequestEndsPagination ==
    [][/\ (pc = "inflight" /\ pc' # "inflight" /\ IsBadRequest(response')) =>
           /\ pc' = "ret"
           /\ mr' = Return(<<>>)
           /\ current_retries' = current_retries
           /\ backoffs' = backoffs
           /\ elapsed_time' - elapsed_time \in Latencies
       /\ (pc = "ret" /\ IsBadRequest(response)) =>
           /\ pc' = "idle"
           /\ result' = Return(all_papers)
           /\ all_papers' = all_papers
           /\ attempts' = attempts]_vars

C5_Witness ==
    /\ FetchEnded
    /\ IsBadRequest(response)
    /\ current_retries = 1
    /\ result.kind = "return"
    /\ Len(result.data) = limit

\* C6 as claimed: on every termination path, 401/403 included, the caller
\* receives the records of all the pages fetched.
C6_AlwaysReturnsAccumulated ==
    FetchEnded => result = Return(served)

\* C6 as amended: on every termination path but a 401/403 the caller receives
\* the records of all the pages fetched, in order; on a 401/403 the ValueError
\* leaves the fetcher and no list is returned.
C6_ReturnsAccumulatedUnlessAuth ==
    FetchEnded =>
        IF IsAuth(response) THEN result = Raise("ValueError")
        ELSE result = Return(served)

C6_Witness ==
    /\ FetchEnded
    /\ Len(page_lens) = 3
    /\ Retryable(Classify(response))
    /\ current_retries = retries
    /\ result.kind = "return"
    /\ Len(result.data) = 2 * limit

\* C7: a page of 0 < n < 100 records is appended and ends the fetch with the
\* accumulated list returned, also below max_results; a page of no records
\* ends it with the list accumulated before.
C7_ShortPageStops ==
    [][(pc = "ret" /\ mr.kind = "return" /\ Len(mr.data) < limit) =>
           /\ pc' = "idle"
           /\ req_offsets' = req_offsets
           /\ attempts' = attempts
           /\ result' = Return(all_papers \o mr.data)]_vars

C7_Witness ==
    /\ FetchEnded
    /\ mr.kind = "return"
    /\ Len(mr.data) = 1
    /\ result.kind = "return"
    /\ Len(result.data) = limit + 1
    /\ Len(result.data) < max_results

AllFull == \A k \in 1..Len(page_lens) : page_lens[k] = limit

Accumulated == Cardinality({k \in 1..Len(page_lens) : page_lens[k] > 0})

\* C8: the k-th page request is at offset 100*(k-1), the offset of a request
\* is 100 times the number of pages accumulated, and when every page is full
\* a fetch with max_results = M > 0 makes exactly ceil(M/100) page requests.
C8_OffsetsAdvanceByPage ==
    /\ \A k \in 1..Len(req_offsets) : req_offsets[k] = limit * (k - 1)
    /\ (pc \in {"call", "loop", "inflight"} => offset = limit * Accumulated)
    /\ (FetchEnded /\ result.kind = "return" /\ AllFull /\ max_results > 0) =>
           Len(req_offsets) = Ceil(max_results, limit)

C8_Witness ==
    /\ FetchEnded
    /\ max_results = 250
    /\ AllFull
    /\ req_offsets = <<0, 100, 200>>
    /\ Len(result.data) = 300

\* C9: a fetch that has started ends (returns or raises), whatever the server
\* answers; every pass of its loop adds a record, stops, or counts a
\* consecutive failure, and every pass of the retry loop inside it consumes
\* a unit of the budget.
C9_FetchTerminates ==
    /\ (pc # "idle") ~> (pc = "idle")
    /\ [][/\ (pc = "ret") =>
              (\/ Len(all_papers') > Len(all_papers)
               \/ pc' = "idle"
               \/ consecutive_failures' > consecutive_failures)
          /\ (pc = "inflight" /\ pc' = "loop") =>
              (current_retries' > current_retries)]_vars

C9_Witness ==
    /\ FetchEnded
    /\ Len(req_offsets) = 3
    /\ Len(backoffs) = retries
    /\ result.kind = "return"

\* C16: a 401/403 during a fetch of get_recent_papers_by_keywords aborts the
\* whole search: once the fetcher has raised, the search does not go back to
\* its loop with an empty list stored for the keyword, and it ends raising
\* the error to its caller.
C16_AuthAbortsSearch ==
    (kw_pc # "none" /\ pc = "idle" /\ result = Raise("ValueError")) =>
        /\ kw_pc \in {"try", "done"}
        /\ kw_pc = "done" => search_result = Raise("ValueError")

RECURSIVE Pow2(_)
Pow2(k) == IF k = 0 THEN 1 ELSE 2 * Pow2(k - 1)

\* C19: in one logical call the sleep after the k-th failed attempt is
\* 5 * 2^(k-1) seconds (5, 10, 20), the delay in force is the initial delay
\* doubled once for each failed attempt, so 5 seconds when the call starts;
\* and two consecutive attempts of a call are apart by the sleep between
\* them and the round trip of the first.
C19_BackoffDoubles ==
    /\ \A k \in 1..Len(backoffs) : backoffs[k] = 5 * 10 * Pow2(k - 1)
    /\ pc \in {"loop", "inflight", "ret"} =>
           current_delay = 5 * 10 * Pow2(current_retries)
    /\ (pc = "inflight" /\ attempts = 1) => (current_delay = 5 * 10 /\ backoffs = <<>>)
    /\ (pc = "inflight" /\ attempts > 1) =>
           /\ Len(backoffs) = attempts - 1
           /\ gap - backoffs[attempts - 1] \in Latencies

\* The second page call of a fetch has slept 5, 10 and 20 seconds.
C19_Witness ==
    /\ pc = "ret"
    /\ Len(req_offsets) = 2
    /\ backoffs = <<50, 100, 200>>
    /\ current_delay = 400

\* C20: a RequestException that leaves the page call makes the fetcher, at
\* the first consecutive failure, pause 5 seconds and call again for the same
\* offset with what it has accumulated, and at the second stop and return
\* what it has accumulated; a page that is appended resets the count, so
\* failures with an appended page between them do not stop the fetch.
C20_CircuitBreaker ==
    /\ [][/\ (pc = "ret" /\ mr = Raise("RequestException")) =>
              IF consecutive_failures = 0
              THEN /\ pc' = "while"
                   /\ consecutive_failures' = 1
                   /\ offset' = offset
                   /\ all_papers' = all_papers
                   /\ result' = result
                   /\ elapsed_time' = elapsed_time + 5 * 10
              ELSE /\ pc' = "idle"
                   /\ result' = Return(all_papers)
          /\ (pc = "ret" /\ mr.kind = "return" /\ Len(mr.data) > 0) =>
              (consecutive_failures' = 0 /\ Len(all_papers') > Len(all_papers))]_vars
    /\ [](\A k \in 1..(Len(req_offsets) - 1) :
             k <= Len(page_lens) =>
                 req_offsets[k + 1] = IF page_lens[k] < 0 THEN req_offsets[k]
                                      ELSE req_offsets[k] + limit)
    /\ [](consecutive_failures < max_consecutive_failures \/ pc = "idle")

\* A failure, a full page, a failure, a failure: the fetch went on after the
\* first and the third call, and returned the page after the fourth.
C20_Witness ==
    /\ FetchEnded
    /\ page_lens = <<0 - 1, limit, 0 - 1, 0 - 1>>
    /\ req_offsets = <<0, 0, limit, limit>>
    /\ mr = Raise("RequestException")
    /\ result.kind = "return"
    /\ Len(result.data) = limit

\* The page requests of a fetch and what it returns, with `bound` the number
\* of records the returned list stays below.
FetchWithinPage(bound) ==
    /\ (pc \in {"call", "loop", "inflight"} => Len(all_papers) < max_results)
    /\ (calls > 0 /\ max_results <= 0) =>
           (req_offsets = <<>> /\ pc \in {"while", "idle"})
    /\ (FetchEnded /\ result.kind = "return") =>
           /\ Len(result.data) < bound
           /\ (AllFull /\ max_results > 0) =>
                  Len(result.data) = limit * Ceil(max_results, limit)

\* C21 as claimed: no page request is issued once the accumulated count is
\* at least max_results (none at all when max_results <= 0), the returned
\* list has fewer than max_results + 100 records, and it is not cut down to
\* max_results: with full pages it holds 100 * ceil(max_results / 100).
C21_BelowMaxPlusPage == FetchWithinPage(max_results + limit)

\* C21 as amended: the same, with the bound on the returned list counted
\* from zero: fewer than max(max_results, 0) + 100 records, since a fetch
\* with max_results <= -100 returns the empty list.
C21_BelowMaxPlusPageFromZero ==
    FetchWithinPage((IF max_results < 0 THEN 0 ELSE max_results) + limit)

C21_Witness ==
    /\ FetchEnded
    /\ max_results = 150
    /\ req_offsets = <<0, limit>>
    /\ result.kind = "return"
    /\ Len(result.data) = 2 * limit

\* C25: no request exception leaves _make_request: a logical call ends in
\* the page the server sent, in {"data": []}, or in the ValueError of a 401
\* or 403; so the fetcher never counts a consecutive failure, never takes
\* its two-failure exit and never asks for the same offset twice.
C25_NoRequestExceptionEscapes ==
    /\ mr # Raise("RequestException")
    /\ (pc = "ret") =>
           IF IsAuth(response) /\ current_retries < retries
           THEN mr = Raise("ValueError")
           ELSE IF Classify(response) = "json" /\ current_retries < retries
           THEN mr = Return(Page(offset, response.n))
           ELSE mr = Return(<<>>)
    /\ result.kind = "raise" => (result.exc = "ValueError" /\ IsAuth(response))
    /\ consecutive_failures = 0
    /\ \A j, k \in 1..Len(req_offsets) : j < k => req_offsets[j] < req_offsets[k]

\* Three attempts that ended in a request exception that is neither a
\* connection error nor a timeout: the call returned the empty result.
C25_Witness ==
    /\ pc = "ret"
    /\ response.transport = "RequestException"
    /\ attempts = retries
    /\ mr = Return(<<>>)
    /\ Len(req_offsets) = 2

\* C26: when the retry budget runs out on a page, the fetch ends there: what
\* _make_request hands over is the page of no records, the fetcher issues no
\* further request and returns the pages it accumulated before, which is
\* what it returns when the server answers that offset with an empty page.
C26_ExhaustionEndsPagination ==
    /\ [][(pc = "ret" /\ current_retries = retries) =>
              /\ mr = Return(Page(offset, 0))
              /\ pc' = "idle"
              /\ result' = Return(all_papers)
              /\ all_papers' = all_papers
              /\ req_offsets' = req_offsets
              /\ attempts' = attempts]_vars
    /\ []((FetchEnded /\ current_retries = retries /\ req_offsets # <<>>) =>
              /\ result = Return(served)
              /\ Len(result.data) = req_offsets[Len(req_offsets)]
              /\ page_lens[Len(page_lens)] = 0)

\* Two full pages, then the third request failing through the whole budget:
\* the two pages are returned.
C26_Witness ==
    /\ FetchEnded
    /\ max_results = 250
    /\ current_retries = retries
    /\ req_offsets = <<0, limit, 2 * limit>>
    /\ result = Return(Page(0, limit) \o Page(limit, limit))

(***************************************************************************)
(* Properties of the journal store.                                        *)
(***************************************************************************)
Rows == {journals[i] : i \in 1..Len(journals)}

Abs(x) == IF x < 0 THEN -x ELSE x

\* C10: every stored record has impact factor 0.0 when its works_count is 0,
\* and otherwise cited_by_count / works_count / 5 rounded to three decimals
\* (the nearest thousandth), of its own stored counts; an impact factor in the
\* input record is not what is stored.
C10_ImpactFactorRecomputed ==
    \A r \in Rows :
        IF r.works_count = 0 THEN r.impact_factor = 0
        ELSE 2 * Abs(r.impact_factor * (r.works_count * 5) - 1000 * r.cited_by_count)
                 <= r.works_count * 5

C10_Witness ==
    /\ Len(journals) = 1
    /\ adds = 2
    /\ "impact_factor" \in DOMAIN last_journal_data
    /\ journals[1].issn_l = "1111"
    /\ journals[1].works_count = 3
    /\ journals[1].cited_by_count = 1
    /\ journals[1].impact_factor = 67

\* The rows stored under the primary key k.
RowsOf(rows, k) == SelectSeq(rows, LAMBDA r : r.issn_l = k)

\* The columns add_journal copies from its argument, with what it writes for
\* a field the argument lacks.
CopiedAs(r, journal_data) ==
    /\ r.display_name = Get(journal_data, "display_name", None)
    /\ r.issn_print = Get(journal_data, "issn_print", None)
    /\ r.issn_online = Get(journal_data, "issn_online", None)
    /\ r.works_count = Get(journal_data, "works_count", 0)
    /\ r.cited_by_count = Get(journal_data, "cited_by_count", 0)
    /\ r.h_index = Get(journal_data, "h_index", 0)

\* C11: the store holds at most one record per primary key (a record written
\* without issn_l has the NULL key, which is no key value); the record under
\* the key of the most recent add_journal carries exactly the fields of that
\* call, null or 0 where the call had none; and a call leaves the records
\* under every other key as they were, so each key's record is that of the
\* most recent call with that key.
C11_UpsertOverwrites ==
    /\ [](\A i, j \in 1..Len(journals) :
             (journals[i].issn_l # None /\ journals[i].issn_l = journals[j].issn_l)
                 => i = j)
    /\ []((adds > 0 /\ "issn_l" \in DOMAIN last_journal_data) =>
             LET rs == RowsOf(journals, last_journal_data["issn_l"])
             IN Len(rs) = 1 /\ CopiedAs(rs[1], last_journal_data))
    /\ [][\A k \in {"1111", "2222"} :
             (adds' = adds + 1 /\ Get(last_journal_data', "issn_l", None) # k)
                 => RowsOf(journals', k) = RowsOf(journals, k)]_vars

\* A record with alternate keys, name and h-index was replaced by a call with
\* the same key that had none of them.
C11_Witness ==
    /\ adds = 2
    /\ Len(journals) = 1
    /\ journals[1].issn_l = "1111"
    /\ DOMAIN last_journal_data = {"issn_l"}
    /\ journals[1].display_name = None
    /\ journals[1].h_index = 0

(***************************************************************************)
(* Properties of the lookups, the score and the sort.                      *)
(***************************************************************************)
HasKey(r, id) == r.issn_l = id \/ r.issn_print = id \/ r.issn_online = id

\* C12: get_journal_by_issn(id) returns not-found without a query when id is
\* empty or None, not-found when no record has id as issn_l, issn_print or
\* issn_online, and otherwise the columns of a record that has.
C12_LookupByIdentifier ==
    read.op = "get_journal_by_issn" =>
        IF read.arg = None \/ read.arg = ""
        THEN read.ret = NoneDict /\ read.selects = 0
        ELSE IF \A r \in Rows : ~HasKey(r, read.arg)
        THEN read.ret = NoneDict
        ELSE \E r \in Rows : HasKey(r, read.arg) /\ read.ret = Project(r)

\* Found by an alternate key while another record has the id as primary key.
C12_Witness ==
    /\ read.op = "get_journal_by_issn"
    /\ read.arg = "1111"
    /\ Len(journals) = 2
    /\ read.ret # NoneDict
    /\ read.ret.issn_l = "2222"

\* C13: when the lowercased display name of some record equals the lowercased
\* name asked for, get_journal_by_name returns a record of which that is
\* true, whatever the impact factor of a record that only contains the name.
C13_ExactMatchFirst ==
    (/\ read.op = "get_journal_by_name"
     /\ Truthy(read.arg)
     /\ \E r \in Rows : /\ r.display_name # None
                         /\ lower(Chars[r.display_name]) = lower(Chars[read.arg]))
    => (/\ read.ret # NoneDict
        /\ read.ret.display_name # None
        /\ lower(Chars[read.ret.display_name]) = lower(Chars[read.arg]))

\* C14 as claimed: every score lies in [10, 120].
C14_ScoreAtLeastTen ==
    read.op = "get_paper_impact_score" =>
        (10 * 1000 <= read.ret /\ read.ret <= 120 * 1000)

\* C14 as amended: every score lies in [0, 120], and it is below 10 only for
\* a paper whose journal record was found with an impact factor below 1.0.
C14_ScoreRange ==
    read.op = "get_paper_impact_score" =>
        /\ 0 <= read.ret /\ read.ret <= 120 * 1000
        /\ read.ret < 10 * 1000 =>
               (read.journal_data # NoneDict /\ read.journal_data.impact_factor < 1000)

\* A journal of impact factor 0.2 found by ISSN, no citations: the score is 2.
C14_Witness ==
    /\ read.op = "get_paper_impact_score"
    /\ read.by = "issn"
    /\ read.journal_data.impact_factor = 200
    /\ read.ret = 2 * 1000

Finds(fs) == \E f \in fs : f.ret # NoneDict

\* C15: the score is base + min(20, 2 * citationCount), citationCount 0 when
\* absent; base is min(100, 10 * impact_factor) of the record found, which is
\* a record of the store, and 10 when none is found, which is when neither
\* the lookup by the identifier nor the lookup by the venue finds one; a
\* store of the one journal with cited_by 500 and works 100 gives it impact
\* factor 1.0, and a paper with its ISSN and 5 citations the score 20.
C15_ScoreFormula ==
    read.op = "get_paper_impact_score" =>
        LET paper == read.arg
            found == read.journal_data
            cited == IF "citationCount" \in DOMAIN paper THEN paper["citationCount"] ELSE 0
            bonus == IF 2 * cited > 20 THEN 20 * 1000 ELSE 2 * cited * 1000
            issn == issn_of(paper)
            venue == IF "venue" \in DOMAIN paper THEN paper["venue"] ELSE ""
        IN /\ found # NoneDict =>
                  /\ \E r \in Rows : found = Project(r)
                  /\ \/ Finds(get_journal_by_issn(journals, issn))
                     \/ Finds(get_journal_by_name(journals, venue))
                  /\ read.ret = bonus + (IF found.impact_factor > 10 * 1000
                                         THEN 100 * 1000
                                         ELSE 10 * found.impact_factor)
           /\ found = NoneDict =>
                  /\ read.ret = 10 * 1000 + bonus
                  /\ ~Finds(get_journal_by_issn(journals, issn))
                  /\ ~Finds(get_journal_by_name(journals, venue))
           /\ (/\ Len(journals) = 1
               /\ journals[1].cited_by_count = 500
               /\ journals[1].works_count = 100
               /\ issn = journals[1].issn_l
               /\ cited = 5) => (journals[1].impact_factor = 1000 /\ read.ret = 20 * 1000)

C15_Witness ==
    /\ read.op = "get_paper_impact_score"
    /\ Len(journals) = 1
    /\ journals[1].cited_by_count = 500
    /\ journals[1].works_count = 100
    /\ issn_of(read.arg) = "1111"
    /\ "citationCount" \in DOMAIN read.arg
    /\ read.arg["citationCount"] = 5
    /\ read.ret = 20 * 1000

\* C17: sort_papers_by_impact returns a permutation of its input, in
\* non-increasing order of the scores, papers of equal score in the order
\* they had in the input.
C17_StableDescendingSort ==
    read.op = "sort_papers_by_impact" =>
        LET n == Len(read.arg)
        IN /\ Len(read.ret) = n
           /\ Len(read.order) = n
           /\ {read.order[k] : k \in 1..n} = 1..n
           /\ \A k \in 1..n : read.ret[k] = read.arg[read.order[k]]
           /\ \A i \in 1..n : read.keys[i] \in ScoresOf(journals, read.arg[i])
           /\ \A k, l \in 1..n :
                  k < l => \/ read.keys[read.order[k]] > read.keys[read.order[l]]
                           \/ /\ read.keys[read.order[k]] = read.keys[read.order[l]]
                              /\ read.order[k] < read.order[l]

\* Three papers, the second of the highest score, the first and third tied.
C17_Witness ==
    /\ read.op = "sort_papers_by_impact"
    /\ Len(read.arg) = 3
    /\ read.keys[1] < read.keys[2]
    /\ read.keys[1] = read.keys[3]
    /\ read.arg[1] # read.arg[3]
    /\ read.order = <<2, 1, 3>>

\* The records whose lowercased display name contains the normalized name.
Containing(name) ==
    {r \in Rows : /\ r.display_name # None
                  /\ Contains(lower(Chars[r.display_name]),
                              normalized_name(Chars[name]))}

\* C22: get_journal_by_name returns not-found for an empty name without a
\* query; and when no display name equals the name case-insensitively it
\* returns a record of maximal impact factor among those whose lowercased
\* display name contains the normalized name, not-found when there is none.
C22_FallbackBestSubstring ==
    read.op = "get_journal_by_name" =>
        IF ~Truthy(read.arg)
        THEN read.ret = NoneDict /\ read.selects = 0
        ELSE (\A r \in Rows : \/ r.display_name = None
                               \/ lower(Chars[r.display_name]) # lower(Chars[read.arg]))
             => IF Containing(read.arg) = {}
                THEN read.ret = NoneDict
                ELSE \E r \in Containing(read.arg) :
                         /\ read.ret = Project(r)
                         /\ \A q \in Containing(read.arg) :
                                q.impact_factor <= r.impact_factor

C24_ScoringPathReadOnly ==
    [][/\ (read.op = "none" /\ read'.op # "none") =>
           /\ read'.op \in {"get_journal_by_issn", "get_journal_by_name",
                             "get_paper_impact_score", "sort_papers_by_impact"}
           /\ journals' = journals
       /\ (journals' # journals) =>
           /\ read.op = "none" /\ read'.op = "none"
           /\ adds' = adds + 1
           /\ \E r \in {journals'[i] : i \in 1..Len(journals')} :
                  CopiedAs(r, last_journal_data')]_vars

\* Two records stored, then a paper scored with no record found for it.
C24_Witness ==
    /\ read.op = "get_paper_impact_score"
    /\ read.by = "none"
    /\ Len(journals) = 2
    /\ \E r \in Rows : r.issn_l = "1111"
    /\ \E r \in Rows : r.display_name = "gut"

(***************************************************************************)
(* Properties of the exclusion filter.                                     *)
(***************************************************************************)
\* The characters of a title or abstract, none when it is missing or null.
TextOf(paper, key) ==
    IF key \in DOMAIN paper /\ paper[key] # None THEN Chars[paper[key]] ELSE <<>>

\* term occurs in text at position i, up to case.
OccursAt(term, text, i) ==
    /\ i + Len(term) <= Len(text)
    /\ \A j \in 1..Len(term) : lower_char(text[i + j]) = lower_char(term[j])

Mentions(paper, term) ==
    \E key \in {"title", "abstract"} :
        \E i \in 0..Len(TextOf(paper, key)) : OccursAt(Chars[term], TextOf(paper, key), i)

\* C18: filter_excluded_terms returns the papers of its input, in input
\* order, whose title and abstract mention none of the exclude terms (a
\* missing or null field is empty, case is ignored), and prints one line,
\* with the number removed, when it removed a paper and none when it did not.
C18_FilterExcludedTerms ==
    filtering.op = "filter_excluded_terms" =>
        LET terms == filtering.exclude_terms
            Kept(paper) == \A k \in 1..Len(terms) : ~Mentions(paper, terms[k])
            removed == Len(filtering.papers) - Len(filtering.ret)
        IN /\ filtering.ret = SelectSeq(filtering.papers, Kept)
           /\ Len(filtering.printed) = (IF removed > 0 THEN 1 ELSE 0)
           /\ removed > 0 => filtering.printed[1].excluded = removed

\* The term in another case in the abstract of the second of three papers,
\* whose title is null; the first and third are kept.
C18_Witness ==
    /\ filtering.op = "filter_excluded_terms"
    /\ filtering.exclude_terms = <<"mi">>
    /\ Len(filtering.papers) = 3
    /\ filtering.papers[2] = (("title" :> None) @@ ("abstract" :> "a Mi"))
    /\ filtering.ret = <<filtering.papers[1], filtering.papers[3]>>
    /\ Len(filtering.printed) = 1

====
